---- MODULE Spec2Model ----
(***************************************************************************)
(* A model of cresta/gogithub: the generic ExpireCache (timeoutcache.go)   *)
(* and the GithubGraphqlAPI client (github.go) whose FindPRForBranch       *)
(* memoises branch -> PR number lookups in an ExpireCache that the         *)
(* mutating operations clear.                                              *)
(*                                                                         *)
(* Time is a counter of ticks; one tick is half a minute, so that the      *)
(* client's DefaultExpiry of time.Minute is two ticks.                     *)
(***************************************************************************)
EXTENDS Integers, FiniteSets, Sequences, TLC

\* ------------------------------------------------------------------ bounds
\* The clock runs from 0 to MaxTime ticks.
MaxTime == 2
\* PR numbers the remote API can report are 1..MaxPR.
MaxPR == 1
\* The cache-only specification draws DefaultExpiry from 0..MaxTTL.
MaxTTL == 2

\* The concurrent callers of one client: two, so that one lookup can be in
\* flight while a mutating call runs, after which that caller looks up.
Procs == {"p1", "p2"}
PRNumbers == 1..MaxPR

\* ------------------------------------------------------------ program data
\* time.Minute in ticks of half a minute.
Minute == 2

\* A findPrCache built with twice the expiry.
TwoMinutes == 2 * Minute

\* createGraphqlAPI, line 238: the DefaultExpiry findPrCache is built with.
findPrCacheExpiry == Minute

\* The zero value of V that Get returns on a miss (`var ret V`); for
\* findPrValue it is {number: 0}, modelled by its only field.
ZeroValue == 0

\* findPrKey: the (owner, name, branch) triple. Four keys, the last three
\* differing from the first in exactly one field.
findPrKey(o, n, b) == [owner |-> o, name |-> n, branch |-> b]
Keys ==
  { findPrKey("o1", "n1", "b1"), findPrKey("o1", "n1", "b2"),
    findPrKey("o1", "n2", "b1"), findPrKey("o2", "n1", "b1") }
\* The keys of a cache used directly: two branches of one repository.
BranchKeys == { findPrKey("o1", "n1", "b1"), findPrKey("o1", "n1", "b2") }
\* The key concurrent callers look up: they race on one branch.
RaceKeys == { findPrKey("o1", "n1", "b1") }

\* Values a cache holds: findPrValue.number, 0 being the "no PR" sentinel.
Values == 0..MaxPR

MutatingOps == {"CreatePullRequest", "AcceptPullRequest", "MergePullRequest"}

VARIABLES
  \* ExpireCache
  cache,          \* e.cache: a function from the keys present to expireValues
  cacheIsNil,     \* e.cache == nil (the map has not been allocated)
  DefaultExpiry,  \* e.DefaultExpiry, in ticks
  now,            \* time.Now(), in ticks
  \* observation of direct cache calls (cache-only specification)
  lastOp,         \* the last direct Get/Set/Clear and what it returned
  hist,           \* per key: the last Set since the last Clear, or NoSet
                  \* (whoever called them)
  \* GithubGraphqlAPI callers
  pc,             \* per caller: where it is in its current call
  op,             \* per caller: the operation it is running
  cacheKey,       \* per caller: FindPRForBranch's cacheKey
  nodes,          \* per caller: query.Repository.PullRequests.Nodes
  ret,            \* per caller: the call's return value once pc = "ret"
  stats,          \* per caller: Query / Mutate / Clear calls made by this call
  call,           \* per caller: where the value it holds or was served came from
  origin,         \* per key: where the value the map holds came from
  sinceSet,       \* per key: "none" until FindPRForBranch Sets it, then
                  \* "populated", and "merged" once a MergePullRequest has
                  \* returned since that Set
  \* ExpireCache, statement by statement
  mu,             \* e.mu: the caller holding it, or Unlocked
  frame,          \* per caller: the locals of its running Get, Set or Clear
  \* NewGQLClient
  cfg,            \* the cfg argument: "nil" or a NewGQLClientConfig
  DefaultGQLClientConfig, \* the package variable, read from the environment
  environment,    \* the gh CLI's token ("" for none) and what reading the
                  \* PEM key would give
  client          \* what NewGQLClient returned, or NoClient before the call

cacheVars == <<cache, cacheIsNil, DefaultExpiry, now>>
obsVars == <<lastOp, hist>>
procVars == <<pc, op, cacheKey, nodes, ret, stats, call, origin, sinceSet>>
lockVars == <<mu, frame>>
configVars == <<cfg, DefaultGQLClientConfig, environment, client>>
auxVars == <<mu, frame, cfg, DefaultGQLClientConfig, environment, client>>
vars == <<cache, cacheIsNil, DefaultExpiry, now, lastOp, hist,
          pc, op, cacheKey, nodes, ret, stats, call, origin, sinceSet,
          mu, frame, cfg, DefaultGQLClientConfig, environment, client>>

\* ------------------------------------------------------------- ExpireCache
\* time.Time.After
After(t, u) == t > u

\* time.Time.Add
Add(t, d) == t + d

EmptyMap == [k \in {} |-> [value |-> ZeroValue, expireAt |-> 0]]

\* delete(e.cache, key)
Delete(c, key) == [k \in (DOMAIN c) \ {key} |-> c[k]]

\* Get with the comparison turned round: time.Now().After(v.expireAt).
GetSwapped(c, key, t) ==
  IF key \in DOMAIN c
    THEN IF After(t, c[key].expireAt)
           THEN [cache |-> c, value |-> c[key].value, found |-> TRUE]
           ELSE [cache |-> Delete(c, key), value |-> ZeroValue, found |-> FALSE]
    ELSE [cache |-> c, value |-> ZeroValue, found |-> FALSE]

\* Get without the delete of an expired entry.
GetNoEvict(c, key, t) ==
  IF key \in DOMAIN c /\ After(c[key].expireAt, t)
    THEN [cache |-> c, value |-> c[key].value, found |-> TRUE]
    ELSE [cache |-> c, value |-> ZeroValue, found |-> FALSE]

\* Get for which an entry is still live at the instant it expires.
GetLiveAtExpiry(c, key, t) ==
  IF key \in DOMAIN c
    THEN IF ~After(t, c[key].expireAt)
           THEN [cache |-> c, value |-> c[key].value, found |-> TRUE]
           ELSE [cache |-> Delete(c, key), value |-> ZeroValue, found |-> FALSE]
    ELSE [cache |-> c, value |-> ZeroValue, found |-> FALSE]

\* Get that compares keys by owner and name only.
GetSameRepo(c, key, t) ==
  LET same == {j \in DOMAIN c : j.owner = key.owner /\ j.name = key.name} IN
    IF same # {}
      THEN LET j == CHOOSE i \in same : TRUE IN
             IF After(c[j].expireAt, t)
               THEN [cache |-> c, value |-> c[j].value, found |-> TRUE]
               ELSE [cache |-> Delete(c, j), value |-> ZeroValue, found |-> FALSE]
      ELSE [cache |-> c, value |-> ZeroValue, found |-> FALSE]

\* Get whose hit pushes the expiry of the entry one tick further.
GetExtend(c, key, t) ==
  IF key \in DOMAIN c
    THEN IF After(c[key].expireAt, t)
           THEN [cache |-> [c EXCEPT ![key].expireAt = @ + 1],
                 value |-> c[key].value, found |-> TRUE]
           ELSE [cache |-> Delete(c, key), value |-> ZeroValue, found |-> FALSE]
    ELSE [cache |-> c, value |-> ZeroValue, found |-> FALSE]

\* Get that also evicts every other entry that has expired.
GetSweep(c, key, t) ==
  [cache |-> [k \in {j \in DOMAIN c : After(c[j].expireAt, t)} |-> c[k]],
   value |-> IF key \in DOMAIN c /\ After(c[key].expireAt, t)
               THEN c[key].value ELSE ZeroValue,
   found |-> key \in DOMAIN c /\ After(c[key].expireAt, t)]

\* ExpireCache.Get: the map it leaves, and the (V, bool) it returns.
Get(c, key, t) ==
  IF key \in DOMAIN c
    THEN IF After(c[key].expireAt, t)
           THEN [cache |-> c, value |-> c[key].value, found |-> TRUE]
           ELSE [cache |-> Delete(c, key), value |-> ZeroValue, found |-> FALSE]
    ELSE [cache |-> c, value |-> ZeroValue, found |-> FALSE]

\* Clear that keeps the entries holding the zero value.
ClearKeepZero(c) ==
  [k \in {j \in DOMAIN c : c[j].value = ZeroValue} |-> c[k]]

\* ExpireCache.Clear: e.cache = make(map)
Clear(c) == EmptyMap

\* Set that leaves the expiry of an entry it overwrites as it was.
SetKeepExpiry(c, key, value, t, ttl) ==
  [k \in (DOMAIN c) \cup {key} |->
     IF k = key
       THEN [value |-> value,
             expireAt |-> IF key \in DOMAIN c THEN c[key].expireAt ELSE Add(t, ttl)]
       ELSE c[k]]

\* Set that replaces an entry only once it has expired.
SetUnlessLive(c, key, value, t, ttl) ==
  IF key \in DOMAIN c /\ After(c[key].expireAt, t) THEN c
  ELSE [k \in (DOMAIN c) \cup {key} |->
          IF k = key THEN [value |-> value, expireAt |-> Add(t, ttl)] ELSE c[k]]

\* Set that leaves an entry already there alone: the first Set wins.
SetIfAbsent(c, key, value, t, ttl) ==
  IF key \in DOMAIN c THEN c
  ELSE [k \in (DOMAIN c) \cup {key} |->
          IF k = key THEN [value |-> value, expireAt |-> Add(t, ttl)] ELSE c[k]]

\* ExpireCache.Set: e.cache[key] = expireValues{value, time.Now().Add(e.DefaultExpiry)}
Set(c, key, value, t, ttl) ==
  [k \in (DOMAIN c) \cup {key} |->
     IF k = key THEN [value |-> value, expireAt |-> Add(t, ttl)] ELSE c[k]]

\* Set without the allocation: the map is nil afterwards if it was before.
NoMake(isNil) == isNil

\* Set, lines 41-43: whether e.cache is nil after them; they allocate it if
\* it was.
MakeIfNil(isNil) == FALSE

\* ------------------------------------------- direct calls on an ExpireCache
\* What is remembered of a key: its last Set since the last Clear (set, value,
\* at), or that it has not been Set since a Clear before which it had been
\* (cleared).
NoSet == [set |-> FALSE, value |-> ZeroValue, at |-> 0, cleared |-> FALSE]
Cleared == [set |-> FALSE, value |-> ZeroValue, at |-> 0, cleared |-> TRUE]
NoOp == [op |-> "none", key |-> findPrKey("o1", "n1", "b1"),
         value |-> ZeroValue, found |-> FALSE, at |-> 0]

\* The effect of a call of Get, Set or Clear on the cache, whoever calls it.
\* Each runs under e.mu from its first to its last statement, so it is one
\* step.
CallGet(key) ==
  /\ cache' = Get(cache, key, now).cache
  /\ UNCHANGED <<cacheIsNil, DefaultExpiry, now, hist>>

\* An assignment to an entry of a nil map panics and writes nothing, which
\* is why Set allocates first.
CallSet(key, value) ==
  /\ cacheIsNil' = MakeIfNil(cacheIsNil)
  /\ cache' = IF MakeIfNil(cacheIsNil) THEN cache
             ELSE Set(cache, key, value, now, DefaultExpiry)
  /\ hist' = IF MakeIfNil(cacheIsNil) THEN hist
            ELSE [hist EXCEPT ![key] = [set |-> TRUE, value |-> value, at |-> now,
                                        cleared |-> FALSE]]
  /\ UNCHANGED <<DefaultExpiry, now>>

CallClear ==
  /\ cache' = Clear(cache)
  /\ cacheIsNil' = FALSE
  /\ hist' = [k \in Keys |->
                IF hist[k].set \/ hist[k].cleared THEN Cleared ELSE NoSet]
  /\ UNCHANGED <<DefaultExpiry, now>>

\* c.Get(key) by a direct user of the cache.
ExpireCacheGet(key) ==
  /\ CallGet(key)
  /\ lastOp' = [op |-> "Get", key |-> key, value |-> Get(cache, key, now).value,
                found |-> Get(cache, key, now).found, at |-> now]
  /\ UNCHANGED procVars
  /\ UNCHANGED auxVars

\* c.Set(key, value) by a direct user of the cache; found records whether
\* the map had an entry for the key.
ExpireCacheSet(key, value) ==
  /\ CallSet(key, value)
  /\ lastOp' = [op |-> IF MakeIfNil(cacheIsNil) THEN "panic" ELSE "Set",
                key |-> key, value |-> value,
                found |-> key \in DOMAIN cache, at |-> now]
  /\ UNCHANGED procVars
  /\ UNCHANGED auxVars

\* c.Clear() by a direct user of the cache.
ExpireCacheClear ==
  /\ CallClear
  /\ lastOp' = [NoOp EXCEPT !.op = "Clear", !.at = now]
  /\ UNCHANGED procVars
  /\ UNCHANGED auxVars

\* The clock advances (time.Sleep, or anything else taking time).
Tick ==
  /\ now < MaxTime
  /\ now' = now + 1
  /\ UNCHANGED <<cache, cacheIsNil, DefaultExpiry, lastOp, hist>>
  /\ UNCHANGED procVars
  /\ UNCHANGED auxVars

\* ------------------------------------------------------- GithubGraphqlAPI
\* What is remembered about the value a lookup is about to Set (call) and
\* about the value the map holds for a key (origin):
\*   pre      the mutating calls now running that began after the live query
\*            that produced the value was issued;
\*   stale    a mutating call that began after that query was issued has
\*            returned after a successful Mutate;
\*   inflight a mutating operation's Clear ran after the lookup's miss and
\*            before its Set.
Fresh == [pre |-> {}, stale |-> FALSE, inflight |-> FALSE]
\* For a caller, also what its Get was served: seenStale and seenInflight
\* are origin[key].stale and .inflight of the value a hit returned, and
\* seenMerged says that the key was merged (see sinceSet) as the hit
\* returned it.
NoCall == [pre |-> {}, stale |-> FALSE, inflight |-> FALSE,
           seenStale |-> FALSE, seenInflight |-> FALSE, seenMerged |-> FALSE]
\* origin for the keys the map c holds
Among(o, c) == [k \in Keys |-> IF k \in DOMAIN c THEN o[k] ELSE Fresh]
\* failed: a Query or Mutate of this call returned an error
NoStats == [queries |-> 0, mutates |-> 0, clears |-> 0, failed |-> FALSE]
NoRet == [number |-> 0, err |-> FALSE]
NoKey == findPrKey("", "", "")

\* The answers a pullRequests(states: [OPEN], headRefName: $branch) query
\* can give: up to MaxNodes nodes. Of the slice the code reads its length and
\* Nodes[0].Number, and that is what is kept of it: [len, first], first being
\* 0 for the empty slice.
MaxNodes == 2
NoNodes == [len |-> 0, first |-> 0]
NodeLists ==
  {NoNodes} \cup { [len |-> n, first |-> f] : n \in 1..MaxNodes, f \in PRNumbers }

\* FindPRForBranch, lines 161-173: build the key, Get; return on a hit.
FindPRForBranch_Get(p, key) ==
  /\ pc[p] = "idle"
  /\ CallGet(key)
  /\ origin' = Among(origin, Get(cache, key, now).cache)
  /\ LET prNum == Get(cache, key, now) IN
       IF prNum.found
         THEN /\ pc' = [pc EXCEPT ![p] = "ret"]
              /\ ret' = [ret EXCEPT ![p] = [number |-> prNum.value, err |-> FALSE]]
              /\ call' = [call EXCEPT ![p] =
                            [NoCall EXCEPT !.seenStale = origin[key].stale,
                                           !.seenInflight = origin[key].inflight,
                                           !.seenMerged = (sinceSet[key] = "merged")]]
         ELSE /\ pc' = [pc EXCEPT ![p] = "query"]
              /\ ret' = ret
              /\ call' = [call EXCEPT ![p] = NoCall]
  /\ op' = [op EXCEPT ![p] = "FindPRForBranch"]
  /\ cacheKey' = [cacheKey EXCEPT ![p] = key]
  /\ stats' = [stats EXCEPT ![p] = NoStats]
  /\ UNCHANGED <<nodes, sinceSet, lastOp>>
  /\ UNCHANGED auxVars

\* A failed query that is issued again.
AfterFailedQueryRetry == "query"

\* FindPRForBranch, lines 187-189: where the call goes when Query failed.
AfterFailedQuery == "ret"

\* A failed query reported as "no pull request".
QueryFailedSwallowed == [number |-> 0, err |-> FALSE]

\* FindPRForBranch, line 188: return 0, fmt.Errorf(...)
QueryFailed == [number |-> 0, err |-> TRUE]

\* An error path that caches "no pull request" before it returns.
SetOnQueryError(c, key, t, ttl) == Set(c, key, ZeroValue, t, ttl)

\* FindPRForBranch, lines 187-190: the map after the return on a failed
\* query; the path holds no call on findPrCache.
OnQueryError(c, key, t, ttl) == c

\* FindPRForBranch, lines 175-190: the live query; return on its error.
FindPRForBranch_Query(p) ==
  /\ pc[p] = "query"
  /\ op[p] = "FindPRForBranch"
  /\ call' = [call EXCEPT ![p].pre = {}, ![p].stale = FALSE]
  /\ \E failed \in BOOLEAN, answer \in NodeLists :
       /\ stats' = [stats EXCEPT ![p].queries = @ + 1, ![p].failed = failed]
       /\ IF failed
         THEN /\ pc' = [pc EXCEPT ![p] = AfterFailedQuery]
              /\ ret' = [ret EXCEPT ![p] = QueryFailed]
              /\ nodes' = nodes
              /\ cache' = OnQueryError(cache, cacheKey[p], now, DefaultExpiry)
         ELSE /\ pc' = [pc EXCEPT ![p] = "set"]
              /\ nodes' = [nodes EXCEPT ![p] = answer]
              /\ ret' = ret
              /\ cache' = cache
  /\ UNCHANGED <<op, cacheKey, origin, sinceSet>>
  /\ UNCHANGED <<cacheIsNil, DefaultExpiry, now>>
  /\ UNCHANGED obsVars
  /\ UNCHANGED auxVars

\* Outcome with the Set of Nodes[0] ahead of the test for several nodes.
OutcomeCacheAmbiguous(n) ==
  IF n.len = 0 THEN [store |-> TRUE, cached |-> 0, number |-> 0, err |-> FALSE]
  ELSE [store |-> TRUE, cached |-> n.first, number |-> IF n.len > 1 THEN 0 ELSE n.first,
        err |-> n.len > 1]

\* Outcome without the Set of the sentinel.
OutcomeNoNegative(n) ==
  IF n.len = 0 THEN [store |-> FALSE, cached |-> 0, number |-> 0, err |-> FALSE]
  ELSE IF n.len > 1 THEN [store |-> FALSE, cached |-> 0, number |-> 0, err |-> TRUE]
  ELSE [store |-> TRUE, cached |-> n.first, number |-> n.first, err |-> FALSE]

\* Outcome that caches findPrValue{} for a single node.
OutcomeCacheZeroValue(n) ==
  IF n.len = 0 THEN [store |-> TRUE, cached |-> 0, number |-> 0, err |-> FALSE]
  ELSE IF n.len > 1 THEN [store |-> FALSE, cached |-> 0, number |-> 0, err |-> TRUE]
  ELSE [store |-> TRUE, cached |-> 0, number |-> n.first, err |-> FALSE]

\* FindPRForBranch, lines 191-201: what the number of nodes decides: whether
\* to Set, the number cached and the (int64, error) returned.
Outcome(n) ==
  IF n.len = 0 THEN [store |-> TRUE, cached |-> 0, number |-> 0, err |-> FALSE]
  ELSE IF n.len > 1 THEN [store |-> FALSE, cached |-> 0, number |-> 0, err |-> TRUE]
  ELSE [store |-> TRUE, cached |-> n.first, number |-> n.first, err |-> FALSE]

\* FindPRForBranch, lines 191-201: Set unless the result is ambiguous, and
\* return.
FindPRForBranch_Set(p) ==
  /\ pc[p] = "set"
  /\ IF Outcome(nodes[p]).store
       THEN /\ CallSet(cacheKey[p], Outcome(nodes[p]).cached)
            /\ origin' = [origin EXCEPT ![cacheKey[p]] =
                            [pre |-> call[p].pre, stale |-> call[p].stale,
                             inflight |-> call[p].inflight]]
            /\ sinceSet' = [sinceSet EXCEPT ![cacheKey[p]] = "populated"]
       ELSE /\ UNCHANGED cacheVars
            /\ UNCHANGED <<hist, origin, sinceSet>>
  /\ pc' = [pc EXCEPT ![p] = "ret"]
  /\ ret' = [ret EXCEPT ![p] = [number |-> Outcome(nodes[p]).number,
                                err |-> Outcome(nodes[p]).err]]
  /\ UNCHANGED <<op, cacheKey, nodes, stats, call, lastOp>>
  /\ UNCHANGED auxVars

\* A mutating call begins: every value whose query has been issued already
\* (held by a caller about to Set it, or in the map) predates it.
Begins(p) ==
  /\ call' = [q \in Procs |->
                IF q = p THEN NoCall
                ELSE IF pc[q] = "set" /\ ~call[q].stale
                  THEN [call[q] EXCEPT !.pre = @ \cup {p}]
                ELSE call[q]]
  /\ origin' = [k \in Keys |->
                  IF k \in DOMAIN cache /\ ~origin[k].stale
                    THEN [origin[k] EXCEPT !.pre = @ \cup {p}]
                  ELSE origin[k]]
  /\ UNCHANGED sinceSet

\* A Clear that runs where the defer statement stands, ahead of the remote
\* calls.
ClearAtDefer(c) == Clear(c)

\* defer g.findPrCache.Clear() (lines 106, 133, 355): the statement only
\* schedules the Clear; the map stays as it is.
DeferClear(c) == c

\* A return on the failed lookup that skips the Clear.
AfterFailedLookupNoClear == "ret"

\* A failed id lookup whose error is ignored: the call goes on to Mutate.
AfterFailedLookupMutate == "mutate"

\* Where a mutating call goes when FindPullRequestOid failed: the return
\* statement, after which the deferred Clear runs.
AfterFailedLookup == "clear"

\* A return on the failed Mutate that skips the Clear.
AfterFailedMutateNoClear == "ret"

\* Where a mutating call goes when Mutate failed: the deferred Clear.
AfterFailedMutate == "clear"

\* FindPullRequestOid as called first by AcceptPullRequest and
\* MergePullRequest (lines 107-110, 134-137): one query; an error or a zero
\* ID is a failure.
LookupThenMutate(p, name) ==
  /\ pc[p] = "idle"
  /\ op' = [op EXCEPT ![p] = name]
  /\ Begins(p)
  /\ \E answer \in {"error", "zero", "id"} :
       /\ stats' = [stats EXCEPT ![p] = [NoStats EXCEPT !.queries = 1,
                                                        !.failed = (answer = "error")]]
       /\ IF answer = "id"
         THEN /\ pc' = [pc EXCEPT ![p] = "mutate"]
              /\ ret' = ret
         ELSE /\ pc' = [pc EXCEPT ![p] = AfterFailedLookup]
              /\ ret' = [ret EXCEPT ![p] = [number |-> 0, err |-> TRUE]]
  /\ UNCHANGED <<cacheKey, nodes>>
  /\ cache' = DeferClear(cache)
  /\ UNCHANGED <<cacheIsNil, DefaultExpiry, now>>
  /\ UNCHANGED obsVars
  /\ UNCHANGED auxVars

\* g.ClientV4.Mutate of AcceptPullRequest and MergePullRequest.
MutateStep(p, name) ==
  /\ pc[p] = "mutate"
  /\ op[p] = name
  /\ \E failed \in BOOLEAN :
       /\ stats' = [stats EXCEPT ![p].mutates = @ + 1, ![p].failed = failed]
       /\ pc' = [pc EXCEPT ![p] = IF failed THEN AfterFailedMutate ELSE "clear"]
       /\ ret' = [ret EXCEPT ![p] = [number |-> 0, err |-> failed]]
  /\ UNCHANGED <<op, cacheKey, nodes, call, origin, sinceSet>>
  /\ UNCHANGED cacheVars
  /\ UNCHANGED obsVars
  /\ UNCHANGED auxVars

\* defer g.findPrCache.Clear(): runs as the mutating call returns.
DeferredClear(p, name) ==
  /\ pc[p] = "clear"
  /\ op[p] = name
  /\ CallClear
  /\ stats' = [stats EXCEPT ![p].clears = @ + 1]
  /\ pc' = [pc EXCEPT ![p] = "ret"]
  /\ call' = [q \in Procs |->
                IF pc[q] \in {"query", "set"}
                  THEN [call[q] EXCEPT !.inflight = TRUE] ELSE call[q]]
  /\ origin' = Among(origin, Clear(cache))
  /\ UNCHANGED <<op, cacheKey, nodes, ret, sinceSet, lastOp>>
  /\ UNCHANGED auxVars

AcceptPullRequest_FindPullRequestOid(p) == LookupThenMutate(p, "AcceptPullRequest")
AcceptPullRequest_Mutate(p) == MutateStep(p, "AcceptPullRequest")
AcceptPullRequest_Clear(p) == DeferredClear(p, "AcceptPullRequest")

MergePullRequest_FindPullRequestOid(p) == LookupThenMutate(p, "MergePullRequest")
MergePullRequest_Mutate(p) == MutateStep(p, "MergePullRequest")
MergePullRequest_Clear(p) == DeferredClear(p, "MergePullRequest")

\* CreatePullRequest, lines 358-368: one Mutate, then the return value.
CreatePullRequest_Mutate(p) ==
  /\ pc[p] = "idle"
  /\ op' = [op EXCEPT ![p] = "CreatePullRequest"]
  /\ Begins(p)
  /\ \E failed \in BOOLEAN, number \in PRNumbers :
       /\ stats' = [stats EXCEPT ![p] = [NoStats EXCEPT !.mutates = 1,
                                                        !.failed = failed]]
       /\ pc' = [pc EXCEPT ![p] = IF failed THEN AfterFailedMutate ELSE "clear"]
       /\ ret' = [ret EXCEPT ![p] =
                    IF failed THEN [number |-> 0, err |-> TRUE]
                    ELSE [number |-> number, err |-> FALSE]]
  /\ UNCHANGED <<cacheKey, nodes>>
  /\ cache' = DeferClear(cache)
  /\ UNCHANGED <<cacheIsNil, DefaultExpiry, now>>
  /\ UNCHANGED obsVars
  /\ UNCHANGED auxVars

CreatePullRequest_Clear(p) == DeferredClear(p, "CreatePullRequest")

\* p's call is a mutating call whose Mutate succeeded
Mutated(p) == op[p] \in MutatingOps /\ stats[p].mutates = 1 /\ ~ret[p].err

\* The call returns to its caller. When a mutating call that has changed the
\* remote state returns, the values that predate it become stale.
Return(p) ==
  /\ pc[p] = "ret"
  /\ pc' = [pc EXCEPT ![p] = "idle"]
  /\ op' = [op EXCEPT ![p] = "none"]
  /\ cacheKey' = [cacheKey EXCEPT ![p] = NoKey]
  /\ nodes' = [nodes EXCEPT ![p] = NoNodes]
  /\ ret' = [ret EXCEPT ![p] = NoRet]
  /\ stats' = [stats EXCEPT ![p] = NoStats]
  /\ call' = [q \in Procs |->
                IF q = p THEN NoCall
                ELSE IF Mutated(p) /\ p \in call[q].pre
                  THEN [call[q] EXCEPT !.pre = {}, !.stale = TRUE]
                ELSE call[q]]
  /\ origin' = [k \in Keys |->
                  IF Mutated(p) /\ p \in origin[k].pre
                    THEN [origin[k] EXCEPT !.pre = {}, !.stale = TRUE]
                  ELSE origin[k]]
  /\ sinceSet' = [k \in Keys |->
                    IF op[p] = "MergePullRequest" /\ sinceSet[k] = "populated"
                      THEN "merged" ELSE sinceSet[k]]
  /\ UNCHANGED cacheVars
  /\ UNCHANGED obsVars
  /\ UNCHANGED auxVars

\* --------------------------------------- ExpireCache, statement by statement
\* Get, Set and Clear as the statements they are made of, for callers that
\* run them concurrently: e.mu.Lock(), the accesses to the map, and the
\* deferred e.mu.Unlock() that runs as the method returns.
Unlocked == "unlocked"

\* The locals of a call: the method, its arguments key and value (for Get,
\* value and found are what it returns), and for the record the map as it
\* was when the call took the mutex (snap) and the time the call read (at).
NoFrame == [fn |-> "none", key |-> NoKey, value |-> ZeroValue, found |-> FALSE,
            snap |-> EmptyMap, at |-> 0]

\* The positions of a call between e.mu.Lock() and the deferred Unlock.
Holding == {"locked", "expired", "store", "unlock"}

\* A Lock that does not wait.
TryLockAlways(m) == TRUE

\* e.mu.Lock() returns once the mutex is free.
TryLock(m) == m = Unlocked

\* A return on a hit that leaves the mutex locked.
AfterHitNoUnlock == "done"

\* Get, line 24: return v.value, true; the deferred Unlock runs.
AfterHit == "unlock"

\* A return on a miss that leaves the mutex locked.
AfterMissNoUnlock == "done"

\* Get, line 29: return ret, false; the deferred Unlock runs.
AfterMiss == "unlock"

\* e.mu.Lock()
ExpireCache_Lock(p) ==
  /\ pc[p] = "lock"
  /\ TryLock(mu)
  /\ mu' = p
  /\ pc' = [pc EXCEPT ![p] = "locked"]
  /\ frame' = [frame EXCEPT ![p].snap = cache, ![p].at = now]
  /\ UNCHANGED <<op, cacheKey, nodes, ret, stats, call, origin, sinceSet>>
  /\ UNCHANGED cacheVars
  /\ UNCHANGED obsVars
  /\ UNCHANGED configVars

\* Get, lines 22-25 and 28-29: read the entry and compare its expireAt with
\* time.Now(); return on a hit and on an absent key.
Get_Lookup(p) ==
  /\ pc[p] = "locked"
  /\ frame[p].fn = "Get"
  /\ LET key == frame[p].key IN
       IF key \in DOMAIN cache
         THEN IF After(cache[key].expireAt, now)
                THEN /\ pc' = [pc EXCEPT ![p] = AfterHit]
                     /\ frame' = [frame EXCEPT ![p].value = cache[key].value,
                                               ![p].found = TRUE, ![p].at = now]
                ELSE /\ pc' = [pc EXCEPT ![p] = "expired"]
                     /\ frame' = [frame EXCEPT ![p].at = now]
         ELSE /\ pc' = [pc EXCEPT ![p] = AfterMiss]
              /\ frame' = [frame EXCEPT ![p].value = ZeroValue,
                                        ![p].found = FALSE, ![p].at = now]
  /\ UNCHANGED <<mu, op, cacheKey, nodes, ret, stats, call, origin, sinceSet>>
  /\ UNCHANGED cacheVars
  /\ UNCHANGED obsVars
  /\ UNCHANGED configVars

\* Get, lines 26-29: delete the expired entry and return a miss.
Get_Delete(p) ==
  /\ pc[p] = "expired"
  /\ cache' = Delete(cache, frame[p].key)
  /\ pc' = [pc EXCEPT ![p] = AfterMiss]
  /\ frame' = [frame EXCEPT ![p].value = ZeroValue, ![p].found = FALSE]
  /\ UNCHANGED <<mu, op, cacheKey, nodes, ret, stats, call, origin, sinceSet>>
  /\ UNCHANGED <<cacheIsNil, DefaultExpiry, now>>
  /\ UNCHANGED obsVars
  /\ UNCHANGED configVars

\* Clear, line 35.
Clear_Make(p) ==
  /\ pc[p] = "locked"
  /\ frame[p].fn = "Clear"
  /\ cache' = Clear(cache)
  /\ cacheIsNil' = FALSE
  /\ pc' = [pc EXCEPT ![p] = "unlock"]
  /\ UNCHANGED <<mu, frame, op, cacheKey, nodes, ret, stats, call, origin, sinceSet>>
  /\ UNCHANGED <<DefaultExpiry, now>>
  /\ UNCHANGED obsVars
  /\ UNCHANGED configVars

\* Set, lines 41-43: allocate the map if it is nil.
Set_Make(p) ==
  /\ pc[p] = "locked"
  /\ frame[p].fn = "Set"
  /\ cache' = IF cacheIsNil THEN EmptyMap ELSE cache
  /\ cacheIsNil' = MakeIfNil(cacheIsNil)
  /\ pc' = [pc EXCEPT ![p] = "store"]
  /\ UNCHANGED <<mu, frame, op, cacheKey, nodes, ret, stats, call, origin, sinceSet>>
  /\ UNCHANGED <<DefaultExpiry, now>>
  /\ UNCHANGED obsVars
  /\ UNCHANGED configVars

\* Set, line 44.
Set_Store(p) ==
  /\ pc[p] = "store"
  /\ cache' = Set(cache, frame[p].key, frame[p].value, now, DefaultExpiry)
  /\ pc' = [pc EXCEPT ![p] = "unlock"]
  /\ frame' = [frame EXCEPT ![p].at = now]
  /\ UNCHANGED <<mu, op, cacheKey, nodes, ret, stats, call, origin, sinceSet>>
  /\ UNCHANGED <<cacheIsNil, DefaultExpiry, now>>
  /\ UNCHANGED obsVars
  /\ UNCHANGED configVars

\* The deferred e.mu.Unlock(): the method returns to its caller.
ExpireCache_Unlock(p) ==
  /\ pc[p] = "unlock"
  /\ mu' = Unlocked
  /\ pc' = [pc EXCEPT ![p] = "done"]
  /\ UNCHANGED <<frame, op, cacheKey, nodes, ret, stats, call, origin, sinceSet>>
  /\ UNCHANGED cacheVars
  /\ UNCHANGED obsVars
  /\ UNCHANGED configVars

\* One statement of a running Get, Set or Clear.
ExpireCache_Step(p) ==
  \/ ExpireCache_Lock(p)
  \/ Get_Lookup(p)
  \/ Get_Delete(p)
  \/ Clear_Make(p)
  \/ Set_Make(p)
  \/ Set_Store(p)
  \/ ExpireCache_Unlock(p)

\* A goroutine calls a method of the cache.
ExpireCache_Call(p, fn, key, value) ==
  /\ pc[p] = "idle"
  /\ pc' = [pc EXCEPT ![p] = "lock"]
  /\ op' = [op EXCEPT ![p] = fn]
  /\ frame' = [frame EXCEPT ![p] =
                 [NoFrame EXCEPT !.fn = fn, !.key = key, !.value = value]]
  /\ UNCHANGED <<mu, cacheKey, nodes, ret, stats, call, origin, sinceSet>>
  /\ UNCHANGED cacheVars
  /\ UNCHANGED obsVars
  /\ UNCHANGED configVars

Get_Call(p, key) == ExpireCache_Call(p, "Get", key, ZeroValue)
Set_Call(p, key, value) == ExpireCache_Call(p, "Set", key, value)
Clear_Call(p) == ExpireCache_Call(p, "Clear", NoKey, ZeroValue)

\* The goroutine has its result and goes on.
ExpireCache_Returned(p) ==
  /\ pc[p] = "done"
  /\ op[p] \in {"Get", "Set", "Clear"}
  /\ pc' = [pc EXCEPT ![p] = "idle"]
  /\ op' = [op EXCEPT ![p] = "none"]
  /\ frame' = [frame EXCEPT ![p] = NoFrame]
  /\ UNCHANGED <<mu, cacheKey, nodes, ret, stats, call, origin, sinceSet>>
  /\ UNCHANGED cacheVars
  /\ UNCHANGED obsVars
  /\ UNCHANGED configVars

\* ----------------------- GithubGraphqlAPI over the statement-level cache
\* FindPRForBranch, lines 164-169: build the key and call Get.
FindPRForBranch_CallGet(p, key) ==
  /\ pc[p] = "idle"
  /\ pc' = [pc EXCEPT ![p] = "lock"]
  /\ op' = [op EXCEPT ![p] = "FindPRForBranch"]
  /\ cacheKey' = [cacheKey EXCEPT ![p] = key]
  /\ stats' = [stats EXCEPT ![p] = NoStats]
  /\ frame' = [frame EXCEPT ![p] = [NoFrame EXCEPT !.fn = "Get", !.key = key]]
  /\ UNCHANGED <<mu, nodes, ret, call, origin, sinceSet>>
  /\ UNCHANGED cacheVars
  /\ UNCHANGED obsVars
  /\ UNCHANGED configVars

\* FindPRForBranch, lines 169-173: Get has returned; return on a hit.
FindPRForBranch_GotGet(p) ==
  /\ pc[p] = "done"
  /\ op[p] = "FindPRForBranch"
  /\ frame[p].fn = "Get"
  /\ IF frame[p].found
       THEN /\ pc' = [pc EXCEPT ![p] = "ret"]
            /\ ret' = [ret EXCEPT ![p] = [number |-> frame[p].value, err |-> FALSE]]
       ELSE /\ pc' = [pc EXCEPT ![p] = "query"]
            /\ ret' = ret
  /\ frame' = [frame EXCEPT ![p] = NoFrame]
  /\ UNCHANGED <<mu, op, cacheKey, nodes, stats, call, origin, sinceSet>>
  /\ UNCHANGED cacheVars
  /\ UNCHANGED obsVars
  /\ UNCHANGED configVars

\* FindPRForBranch, lines 191-200: call Set unless the result is ambiguous.
FindPRForBranch_CallSet(p) ==
  /\ pc[p] = "set"
  /\ IF Outcome(nodes[p]).store
       THEN /\ pc' = [pc EXCEPT ![p] = "lock"]
            /\ frame' = [frame EXCEPT ![p] =
                           [NoFrame EXCEPT !.fn = "Set", !.key = cacheKey[p],
                                           !.value = Outcome(nodes[p]).cached]]
            /\ ret' = ret
       ELSE /\ pc' = [pc EXCEPT ![p] = "ret"]
            /\ frame' = frame
            /\ ret' = [ret EXCEPT ![p] = [number |-> Outcome(nodes[p]).number,
                                          err |-> Outcome(nodes[p]).err]]
  /\ UNCHANGED <<mu, op, cacheKey, nodes, stats, call, origin, sinceSet>>
  /\ UNCHANGED cacheVars
  /\ UNCHANGED obsVars
  /\ UNCHANGED configVars

\* FindPRForBranch, lines 194 and 201: Set has returned; return the number.
FindPRForBranch_DidSet(p) ==
  /\ pc[p] = "done"
  /\ op[p] = "FindPRForBranch"
  /\ frame[p].fn = "Set"
  /\ pc' = [pc EXCEPT ![p] = "ret"]
  /\ ret' = [ret EXCEPT ![p] = [number |-> Outcome(nodes[p]).number,
                                err |-> Outcome(nodes[p]).err]]
  /\ frame' = [frame EXCEPT ![p] = NoFrame]
  /\ UNCHANGED <<mu, op, cacheKey, nodes, stats, call, origin, sinceSet>>
  /\ UNCHANGED cacheVars
  /\ UNCHANGED obsVars
  /\ UNCHANGED configVars

\* A mutating operation returns: the deferred g.findPrCache.Clear() is called.
Deferred_CallClear(p) ==
  /\ pc[p] = "clear"
  /\ op[p] \in MutatingOps
  /\ pc' = [pc EXCEPT ![p] = "lock"]
  /\ frame' = [frame EXCEPT ![p] = [NoFrame EXCEPT !.fn = "Clear"]]
  /\ UNCHANGED <<mu, op, cacheKey, nodes, ret, stats, call, origin, sinceSet>>
  /\ UNCHANGED cacheVars
  /\ UNCHANGED obsVars
  /\ UNCHANGED configVars

\* The deferred Clear has returned.
Deferred_Cleared(p) ==
  /\ pc[p] = "done"
  /\ op[p] \in MutatingOps
  /\ frame[p].fn = "Clear"
  /\ pc' = [pc EXCEPT ![p] = "ret"]
  /\ stats' = [stats EXCEPT ![p].clears = @ + 1]
  /\ frame' = [frame EXCEPT ![p] = NoFrame]
  /\ UNCHANGED <<mu, op, cacheKey, nodes, ret, call, origin, sinceSet>>
  /\ UNCHANGED cacheVars
  /\ UNCHANGED obsVars
  /\ UNCHANGED configVars

\* ------------------------------------------------------ read-only operations
\* An operation that also empties findPrCache.
ClearsToo(c) == Clear(c)

\* The map after GetAccessToken, FindPullRequestOid, Self or RepositoryInfo:
\* none of them names findPrCache.
NoCacheCall(c) == c

\* GetAccessToken (lines 76-78): the token function's (string, error); no
\* Query and no Mutate. Of the result only the error is kept.
GetAccessToken(p) ==
  /\ pc[p] = "idle"
  /\ op' = [op EXCEPT ![p] = "GetAccessToken"]
  /\ pc' = [pc EXCEPT ![p] = "ret"]
  /\ \E failed \in BOOLEAN :
       /\ stats' = [stats EXCEPT ![p] = [NoStats EXCEPT !.failed = failed]]
       /\ ret' = [ret EXCEPT ![p] = [number |-> 0, err |-> failed]]
  /\ UNCHANGED <<cacheKey, nodes, call, origin, sinceSet>>
  /\ cache' = NoCacheCall(cache)
  /\ UNCHANGED <<cacheIsNil, DefaultExpiry, now>>
  /\ UNCHANGED obsVars
  /\ UNCHANGED auxVars

\* Self (lines 339-352) and RepositoryInfo (lines 371-382): one Query, whose
\* error is wrapped and returned. Of the result only the error is kept.
QueryOnly(p, name) ==
  /\ pc[p] = "idle"
  /\ op' = [op EXCEPT ![p] = name]
  /\ pc' = [pc EXCEPT ![p] = "ret"]
  /\ \E failed \in BOOLEAN :
       /\ stats' = [stats EXCEPT ![p] = [NoStats EXCEPT !.queries = 1,
                                                        !.failed = failed]]
       /\ ret' = [ret EXCEPT ![p] = [number |-> 0, err |-> failed]]
  /\ UNCHANGED <<cacheKey, nodes, call, origin, sinceSet>>
  /\ cache' = NoCacheCall(cache)
  /\ UNCHANGED <<cacheIsNil, DefaultExpiry, now>>
  /\ UNCHANGED obsVars
  /\ UNCHANGED auxVars

Self(p) == QueryOnly(p, "Self")
RepositoryInfo(p) == QueryOnly(p, "RepositoryInfo")

\* FindPullRequestOid called on its own (lines 80-103): one Query; its error
\* and a zero ID are both returned as errors, an ID (kept as 1) otherwise.
FindPullRequestOid(p) ==
  /\ pc[p] = "idle"
  /\ op' = [op EXCEPT ![p] = "FindPullRequestOid"]
  /\ pc' = [pc EXCEPT ![p] = "ret"]
  /\ \E answer \in {"error", "zero", "id"} :
       /\ stats' = [stats EXCEPT ![p] = [NoStats EXCEPT !.queries = 1,
                                                        !.failed = (answer = "error")]]
       /\ ret' = [ret EXCEPT ![p] = IF answer = "id"
                                      THEN [number |-> 1, err |-> FALSE]
                                      ELSE [number |-> 0, err |-> TRUE]]
  /\ UNCHANGED <<cacheKey, nodes, call, origin, sinceSet>>
  /\ cache' = NoCacheCall(cache)
  /\ UNCHANGED <<cacheIsNil, DefaultExpiry, now>>
  /\ UNCHANGED obsVars
  /\ UNCHANGED auxVars

\* ------------------------------------------------------------ NewGQLClient
\* A nil *NewGQLClientConfig.
NilConfig == [isNil |-> TRUE]

\* NewGQLClientConfig values: Rt is "nil" or a transport, the ids are 0 or
\* set, PEMKeyLoc and Token are "" or set. What a caller passes and what the
\* environment gives are told apart by their values.
CallerConfigs ==
  [Rt : {"nil", "rt"}, AppID : {0, 1}, InstallationID : {0, 1},
   PEMKeyLoc : {"", "cfg.pem"}, Token : {"", "cfg-token"}]
DefaultConfigs ==
  [Rt : {"http.DefaultTransport"}, AppID : {0, 2}, InstallationID : {0, 2},
   PEMKeyLoc : {"", "env.pem"}, Token : {"", "env-token"}]

\* The rest of the environment: the oauth_token of github.com in the gh
\* CLI's hosts.yml ("" when there is none or it cannot be read), and what
\* using the PEM key gives: a transport ("ok"), no key file ("nokey") or a
\* key that obtains no token ("notoken").
Environments == [cli : {"", "cli-token"}, pem : {"ok", "nokey", "notoken"}]

\* What NewGQLClient returns: the client (kind "nil" for a nil GitHub), the
\* token or the key its tokenFunction uses, and the error ("" for nil).
NoKeyFile == [Rt |-> "nil", AppID |-> 0, InstallationID |-> 0, PEMKeyLoc |-> ""]
NoClient == [kind |-> "none", token |-> "", key |-> NoKeyFile, err |-> ""]

\* mergeGithubConfigs
mergeGithubConfigs(c, config) ==
  IF c = NilConfig THEN config
  ELSE [Rt |-> IF c.Rt = "nil" THEN config.Rt ELSE c.Rt,
        AppID |-> IF c.AppID = 0 THEN config.AppID ELSE c.AppID,
        InstallationID |-> IF c.InstallationID = 0
                             THEN config.InstallationID ELSE c.InstallationID,
        PEMKeyLoc |-> IF c.PEMKeyLoc = "" THEN config.PEMKeyLoc ELSE c.PEMKeyLoc,
        Token |-> IF c.Token = "" THEN config.Token ELSE c.Token]

\* clientFromToken: always a client.
clientFromToken(token) ==
  [kind |-> "token", token |-> token, key |-> NoKeyFile, err |-> ""]

\* clientFromPEM: a client unless the key file cannot be used.
clientFromPEM(rt, appID, installID, pemLoc, env) ==
  IF env.pem = "nokey"
    THEN [kind |-> "nil", token |-> "", key |-> NoKeyFile,
          err |-> "unable to find key file"]
  ELSE IF env.pem = "notoken"
    THEN [kind |-> "nil", token |-> "", key |-> NoKeyFile,
          err |-> "unable to validate token"]
  ELSE [kind |-> "pem", token |-> "",
        key |-> [Rt |-> IF rt = "nil" THEN "http.DefaultTransport" ELSE rt,
                 AppID |-> appID, InstallationID |-> installID,
                 PEMKeyLoc |-> pemLoc],
        err |-> ""]

\* tokenFromGithubCLI
tokenFromGithubCLI(env) == env.cli

\* NewGQLClient that asks the gh CLI before it looks at the PEM key.
NewGQLClientCLIFirst(c, config, env) ==
  LET m == mergeGithubConfigs(c, config) IN
    IF m # NilConfig /\ m.Token # "" THEN clientFromToken(m.Token)
    ELSE IF tokenFromGithubCLI(env) # "" THEN clientFromToken(tokenFromGithubCLI(env))
    ELSE IF m # NilConfig /\ m.PEMKeyLoc # ""
      THEN clientFromPEM(m.Rt, m.AppID, m.InstallationID, m.PEMKeyLoc, env)
    ELSE [kind |-> "nil", token |-> "", key |-> NoKeyFile, err |-> "no token provided"]

\* NewGQLClient
NewGQLClient(c, config, env) ==
  LET m == mergeGithubConfigs(c, config) IN
    IF m # NilConfig /\ m.Token # "" THEN clientFromToken(m.Token)
    ELSE IF m # NilConfig /\ m.PEMKeyLoc # ""
      THEN clientFromPEM(m.Rt, m.AppID, m.InstallationID, m.PEMKeyLoc, env)
    ELSE IF tokenFromGithubCLI(env) # "" THEN clientFromToken(tokenFromGithubCLI(env))
    ELSE [kind |-> "nil", token |-> "", key |-> NoKeyFile, err |-> "no token provided"]

\* A program calls NewGQLClient(ctx, logger, cfg).
NewGQLClient_Call ==
  /\ client = NoClient
  /\ client' = NewGQLClient(cfg, DefaultGQLClientConfig, environment)
  /\ UNCHANGED <<cfg, DefaultGQLClientConfig, environment>>
  /\ UNCHANGED lockVars
  /\ UNCHANGED cacheVars
  /\ UNCHANGED obsVars
  /\ UNCHANGED procVars

\* The program drops the client (or the error) it got.
NewGQLClient_Drop ==
  /\ client # NoClient
  /\ client' = NoClient
  /\ UNCHANGED <<cfg, DefaultGQLClientConfig, environment>>
  /\ UNCHANGED lockVars
  /\ UNCHANGED cacheVars
  /\ UNCHANGED obsVars
  /\ UNCHANGED procVars

\* The client under study was made from a static token; NewGQLClient is not
\* being called.
NoNewGQLClient ==
  /\ cfg = NilConfig
  /\ DefaultGQLClientConfig =
       [Rt |-> "http.DefaultTransport", AppID |-> 0, InstallationID |-> 0,
        PEMKeyLoc |-> "", Token |-> "env-token"]
  /\ environment = [cli |-> "", pem |-> "nokey"]
  /\ client = NoClient

\* ---------------------------------------------------------- specifications
\* createGraphqlAPI: a client with an unallocated cache and a TTL of a minute.
Init ==
  /\ cache = EmptyMap
  /\ cacheIsNil = TRUE
  /\ DefaultExpiry = findPrCacheExpiry
  /\ now = 0
  /\ lastOp = NoOp
  /\ hist = [k \in Keys |-> NoSet]
  /\ pc = [p \in Procs |-> "idle"]
  /\ op = [p \in Procs |-> "none"]
  /\ cacheKey = [p \in Procs |-> NoKey]
  /\ nodes = [p \in Procs |-> NoNodes]
  /\ ret = [p \in Procs |-> NoRet]
  /\ stats = [p \in Procs |-> NoStats]
  /\ call = [p \in Procs |-> NoCall]
  /\ origin = [k \in Keys |-> Fresh]
  /\ sinceSet = [k \in Keys |-> "none"]
  /\ mu = Unlocked
  /\ frame = [p \in Procs |-> NoFrame]
  /\ NoNewGQLClient

Step(p, K) ==
  \/ \E key \in K : FindPRForBranch_Get(p, key)
  \/ FindPRForBranch_Query(p)
  \/ FindPRForBranch_Set(p)
  \/ AcceptPullRequest_FindPullRequestOid(p)
  \/ AcceptPullRequest_Mutate(p)
  \/ AcceptPullRequest_Clear(p)
  \/ MergePullRequest_FindPullRequestOid(p)
  \/ MergePullRequest_Mutate(p)
  \/ MergePullRequest_Clear(p)
  \/ CreatePullRequest_Mutate(p)
  \/ CreatePullRequest_Clear(p)
  \/ Return(p)

\* Any number of callers use one client concurrently.
Next == (\E p \in Procs : Step(p, RaceKeys)) \/ Tick

Spec == Init /\ [][Next]_vars

\* One caller, one call at a time, on two branches.
NextSeq ==
  \/ Step("p1", BranchKeys)
  \/ Self("p1")
  \/ RepositoryInfo("p1")
  \/ FindPullRequestOid("p1")
  \/ GetAccessToken("p1")
  \/ Tick

SpecSeq == Init /\ [][NextSeq]_vars

\* One caller looks up branches of several repositories, one call at a time,
\* all within the first tick.
NextKeys ==
  \/ \E key \in Keys : FindPRForBranch_Get("p1", key)
  \/ FindPRForBranch_Query("p1")
  \/ FindPRForBranch_Set("p1")
  \/ Return("p1")

SpecKeys == Init /\ [][NextKeys]_vars

\* An ExpireCache[K, V]{DefaultExpiry: d} used directly, as the tests do.
InitCache ==
  /\ cache = EmptyMap
  /\ cacheIsNil = TRUE
  /\ DefaultExpiry \in 0..MaxTTL
  /\ now = 0
  /\ lastOp = NoOp
  /\ hist = [k \in Keys |-> NoSet]
  /\ pc = [p \in Procs |-> "idle"]
  /\ op = [p \in Procs |-> "none"]
  /\ cacheKey = [p \in Procs |-> NoKey]
  /\ nodes = [p \in Procs |-> NoNodes]
  /\ ret = [p \in Procs |-> NoRet]
  /\ stats = [p \in Procs |-> NoStats]
  /\ call = [p \in Procs |-> NoCall]
  /\ origin = [k \in Keys |-> Fresh]
  /\ sinceSet = [k \in Keys |-> "none"]
  /\ mu = Unlocked
  /\ frame = [p \in Procs |-> NoFrame]
  /\ NoNewGQLClient

NextCache ==
  \/ \E key \in BranchKeys : ExpireCacheGet(key)
  \/ \E key \in BranchKeys, value \in Values : ExpireCacheSet(key, value)
  \/ ExpireCacheClear
  \/ Tick

SpecCache == InitCache /\ [][NextCache]_vars

\* Goroutines call Get, Set and Clear of one ExpireCache concurrently.
NextMu ==
  \/ \E p \in Procs :
       \/ \E key \in RaceKeys : Get_Call(p, key)
       \/ \E key \in RaceKeys, value \in Values : Set_Call(p, key, value)
       \/ Clear_Call(p)
       \/ ExpireCache_Step(p)
       \/ ExpireCache_Returned(p)
  \/ Tick

SpecMu == InitCache /\ [][NextMu]_vars

\* The same on the client's cache (a TTL of a minute) under fair scheduling:
\* a goroutine that can take a step of its call eventually does, and one
\* waiting in Lock is not passed over for ever (sync.Mutex hands the mutex to
\* a waiter that has starved).
SpecMuFair ==
  /\ Init
  /\ [][NextMu]_vars
  /\ \A p \in Procs :
       /\ SF_vars(ExpireCache_Lock(p))
       /\ WF_vars(Get_Lookup(p) \/ Get_Delete(p) \/ Clear_Make(p) \/ Set_Make(p)
                    \/ Set_Store(p) \/ ExpireCache_Unlock(p))

\* One caller looks branches up while another runs mutating operations on
\* the same client, the cache calls taken statement by statement.
LookupLock(p, K) ==
  \/ \E key \in K : FindPRForBranch_CallGet(p, key)
  \/ FindPRForBranch_GotGet(p)
  \/ FindPRForBranch_Query(p)
  \/ FindPRForBranch_CallSet(p)
  \/ FindPRForBranch_DidSet(p)

MutateLock(p) ==
  \/ AcceptPullRequest_FindPullRequestOid(p)
  \/ AcceptPullRequest_Mutate(p)
  \/ MergePullRequest_FindPullRequestOid(p)
  \/ MergePullRequest_Mutate(p)
  \/ CreatePullRequest_Mutate(p)
  \/ Deferred_CallClear(p)
  \/ Deferred_Cleared(p)

NextLock ==
  \/ LookupLock("p1", RaceKeys)
  \/ MutateLock("p2")
  \/ \E p \in Procs : ExpireCache_Step(p)
  \/ \E p \in Procs : Return(p)
  \/ Tick

SpecLock == Init /\ [][NextLock]_vars

\* NewGQLClient called with any cfg in any environment.
InitConfig ==
  /\ cache = EmptyMap
  /\ cacheIsNil = TRUE
  /\ DefaultExpiry = findPrCacheExpiry
  /\ now = 0
  /\ lastOp = NoOp
  /\ hist = [k \in Keys |-> NoSet]
  /\ pc = [p \in Procs |-> "idle"]
  /\ op = [p \in Procs |-> "none"]
  /\ cacheKey = [p \in Procs |-> NoKey]
  /\ nodes = [p \in Procs |-> NoNodes]
  /\ ret = [p \in Procs |-> NoRet]
  /\ stats = [p \in Procs |-> NoStats]
  /\ call = [p \in Procs |-> NoCall]
  /\ origin = [k \in Keys |-> Fresh]
  /\ sinceSet = [k \in Keys |-> "none"]
  /\ mu = Unlocked
  /\ frame = [p \in Procs |-> NoFrame]
  /\ cfg \in {NilConfig} \cup CallerConfigs
  /\ DefaultGQLClientConfig \in DefaultConfigs
  /\ environment \in Environments
  /\ client = NoClient

NextConfig == NewGQLClient_Call \/ NewGQLClient_Drop

SpecConfig == InitConfig /\ [][NextConfig]_vars

\* ------------------------------------------------------------------ claims
Lookup(p) == op[p] = "FindPRForBranch"
\* p's call is over and its result is in ret[p]
Returned(p) == pc[p] = "ret"
\* this step is p's FindPRForBranch(key) beginning, up to the return of Get
Begin(p, key) ==
  pc[p] = "idle" /\ op'[p] = "FindPRForBranch" /\ cacheKey'[p] = key
\* this step is p's FindPRForBranch acting on the nodes its query returned
Decide(p) == pc[p] = "set" /\ pc'[p] = "ret"

\* C1: a FindPRForBranch that returns a number from the cache is never served
\* a value whose live query was issued before a mutating operation began that
\* had returned, its Mutate done, by the time the lookup began.
C1_NoStaleServed ==
  \A p \in Procs :
    (Returned(p) /\ Lookup(p) /\ stats[p].queries = 0) => ~call[p].seenStale

\* C2: a mutating operation has called Clear exactly once when it returns,
\* on every return path, and not before.
C2_ClearExactlyOnce ==
  \A p \in Procs :
    op[p] \in MutatingOps => stats[p].clears = (IF Returned(p) THEN 1 ELSE 0)

\* Two calls have returned with an error: a MergePullRequest whose id lookup
\* failed (no Mutate) and a CreatePullRequest whose Mutate failed; each has
\* cleared once.
C2_Witness ==
  \E p, q \in Procs :
    /\ Returned(p) /\ op[p] = "MergePullRequest"
    /\ ret[p].err /\ stats[p].mutates = 0 /\ stats[p].clears = 1
    /\ Returned(q) /\ op[q] = "CreatePullRequest"
    /\ ret[q].err /\ stats[q].mutates = 1 /\ stats[q].clears = 1

\* C3: a FindPRForBranch that begins after a Clear performs a live query: it
\* is never served a value Set by a lookup that had missed before that Clear.
C3_MissAfterClear ==
  \A p \in Procs :
    (Returned(p) /\ Lookup(p) /\ stats[p].queries = 0) => ~call[p].seenInflight

\* C4: with one call at a time, a FindPRForBranch for a key that a lookup
\* populated before a MergePullRequest that has returned is not answered
\* from the cache.
C4_LiveQueryAfterMerge ==
  \A p \in Procs :
    (Returned(p) /\ Lookup(p) /\ stats[p].queries = 0) => ~call[p].seenMerged

\* At time 0 (nothing can have expired) the caller has issued a live query
\* for a key populated before a MergePullRequest that has returned.
C4_Witness ==
  /\ pc["p1"] = "set" /\ Lookup("p1") /\ stats["p1"].queries = 1
  /\ sinceSet[cacheKey["p1"]] = "merged"
  /\ now = 0

\* C5: a FindPRForBranch that finds a non-expired entry for its key returns
\* the entry's number and a nil error without a live query.
C5_HitReturnsCached ==
  [][\A p \in Procs, k \in Keys :
       (Begin(p, k) /\ k \in DOMAIN cache /\ After(cache[k].expireAt, now))
         => /\ pc'[p] = "ret"
            /\ ret'[p] = [number |-> cache[k].value, err |-> FALSE]
            /\ stats'[p].queries = 0]_vars

\* A lookup has returned the sentinel 0 from the cache.
C5_Witness ==
  \E p \in Procs :
    /\ Returned(p) /\ Lookup(p) /\ stats[p].queries = 0
    /\ ret[p] = [number |-> 0, err |-> FALSE]
    /\ cacheKey[p] \in DOMAIN cache /\ cache[cacheKey[p]].value = 0

\* C6: a FindPRForBranch whose query returned no node Sets 0 for its key and
\* returns (0, nil); and a FindPRForBranch for a key whose last Set since the
\* last Clear stored 0 less than DefaultExpiry ago returns (0, nil) without a
\* live query.
C6_ZeroResultCached ==
  [][\A p \in Procs :
       /\ (Decide(p) /\ nodes[p].len = 0)
            => /\ cacheKey[p] \in DOMAIN cache'
               /\ cache'[cacheKey[p]] =
                    [value |-> 0, expireAt |-> now + DefaultExpiry]
               /\ ret'[p] = [number |-> 0, err |-> FALSE]
       /\ \A k \in Keys :
            (Begin(p, k) /\ hist[k].set /\ hist[k].value = 0
               /\ now < hist[k].at + DefaultExpiry)
              => /\ pc'[p] = "ret"
                 /\ ret'[p] = [number |-> 0, err |-> FALSE]
                 /\ stats'[p].queries = 0]_vars

\* One lookup has returned 0 after a query that found no node, and another,
\* for the same key, has returned 0 without a query.
C6_Witness ==
  \E p, q \in Procs :
    /\ Returned(p) /\ Lookup(p) /\ stats[p].queries = 1
    /\ nodes[p].len = 0 /\ ret[p] = [number |-> 0, err |-> FALSE]
    /\ Returned(q) /\ Lookup(q) /\ stats[q].queries = 0
    /\ cacheKey[q] = cacheKey[p] /\ ret[q] = [number |-> 0, err |-> FALSE]
    /\ hist[cacheKey[p]].set /\ hist[cacheKey[p]].value = 0

\* C7: with one call at a time, a FindPRForBranch whose query returned
\* several nodes returns an error and leaves the cache as it was, without an
\* entry for its key; and a FindPRForBranch for a key without an entry goes
\* on to the live query.
C7_AmbiguousNotCached ==
  [][\A p \in Procs :
       /\ (Decide(p) /\ nodes[p].len > 1)
            => /\ ret'[p] = [number |-> 0, err |-> TRUE]
               /\ cache' = cache
               /\ cacheKey[p] \notin DOMAIN cache'
       /\ \A k \in Keys :
            (Begin(p, k) /\ k \notin DOMAIN cache) => pc'[p] = "query"]_vars

\* A lookup has returned an error for several nodes, its key has no entry and
\* the other key has one.
C7_Witness ==
  \E p \in Procs :
    /\ Returned(p) /\ Lookup(p) /\ stats[p].queries = 1
    /\ nodes[p].len > 1 /\ ret[p].err
    /\ cacheKey[p] \notin DOMAIN cache
    /\ DOMAIN cache # {}

\* C8: a FindPRForBranch whose query returned one node Sets that node's
\* number for its key and returns it with a nil error: the number returned is
\* the number cached.
C8_SingleResultCached ==
  [][\A p \in Procs :
       (Decide(p) /\ nodes[p].len = 1)
         => /\ cacheKey[p] \in DOMAIN cache'
            /\ cache'[cacheKey[p]] =
                 [value |-> nodes[p].first, expireAt |-> now + DefaultExpiry]
            /\ ret'[p] = [number |-> nodes[p].first, err |-> FALSE]
            /\ ret'[p].number = cache'[cacheKey[p]].value]_vars

\* A lookup has returned the PR number of the one node, and the cache holds it.
C8_Witness ==
  \E p \in Procs :
    /\ Returned(p) /\ Lookup(p) /\ stats[p].queries = 1
    /\ nodes[p].len = 1 /\ nodes[p].first = MaxPR
    /\ ret[p] = [number |-> MaxPR, err |-> FALSE]
    /\ cacheKey[p] \in DOMAIN cache /\ cache[cacheKey[p]].value = MaxPR

\* C9: a Get(K) strictly before (time of the last Set(K, V) + TTL), with no
\* Clear since that Set, returns (V, true).
C9_SetThenGet ==
  (lastOp.op = "Get" /\ hist[lastOp.key].set
     /\ lastOp.at < hist[lastOp.key].at + DefaultExpiry)
    => (lastOp.found /\ lastOp.value = hist[lastOp.key].value)

\* A Get has returned a non-zero value some time after its Set.
C9_Witness ==
  /\ lastOp.op = "Get" /\ hist[lastOp.key].set
  /\ lastOp.at > hist[lastOp.key].at
  /\ lastOp.at < hist[lastOp.key].at + DefaultExpiry
  /\ lastOp.found /\ lastOp.value = MaxPR

\* C10: a Get(K) at or after (time of the last Set(K, _) + TTL) returns
\* (zero value, false) and leaves no entry for K in the map.
C10_GetAfterTTL ==
  (lastOp.op = "Get" /\ hist[lastOp.key].set
     /\ lastOp.at >= hist[lastOp.key].at + DefaultExpiry)
    => /\ ~lastOp.found
       /\ lastOp.value = ZeroValue
       /\ lastOp.key \notin DOMAIN cache

\* A Get has missed a non-zero value whose TTL (not zero) had run out, while
\* the other key still has its entry.
C10_Witness ==
  /\ lastOp.op = "Get" /\ hist[lastOp.key].set
  /\ hist[lastOp.key].value = MaxPR /\ DefaultExpiry > 0
  /\ lastOp.at > hist[lastOp.key].at + DefaultExpiry
  /\ ~lastOp.found /\ lastOp.key \notin DOMAIN cache
  /\ DOMAIN cache # {}

\* this step is a direct Get(k) on the cache
IsGet(k) == lastOp'.op = "Get" /\ lastOp'.key = k /\ now' = now

\* C11: Get(K) finds K exactly when the map holds an entry for K and the
\* time is strictly before its expireAt; an entry at or past its expireAt
\* is missed and removed, so with a TTL of zero a Get at the instant of the
\* Set misses; a hit returns the entry's value and leaves the map alone.
C11_VisibleIffBeforeExpiry ==
  [][\A k \in Keys :
       IsGet(k) =>
         /\ lastOp'.found <=> (k \in DOMAIN cache /\ now < cache[k].expireAt)
         /\ lastOp'.found => (lastOp'.value = cache[k].value /\ cache' = cache)
         /\ ~lastOp'.found =>
              (lastOp'.value = ZeroValue /\ cache' = Delete(cache, k))
         /\ (hist[k].set /\ hist[k].at = now /\ DefaultExpiry = 0)
              => ~lastOp'.found]_vars

\* With a TTL of zero, a Get at the instant of the Set of a non-zero value
\* has missed and removed the entry.
C11_Witness ==
  /\ DefaultExpiry = 0
  /\ lastOp.op = "Get" /\ ~lastOp.found
  /\ hist[lastOp.key].set /\ hist[lastOp.key].at = lastOp.at
  /\ hist[lastOp.key].value = MaxPR
  /\ lastOp.key \notin DOMAIN cache

\* C12: a Get(K) for a key not Set since the last Clear returns (zero value,
\* false), whatever was Set before the Clear and whether or not it had
\* expired; and Clear leaves a map without entries.
C12_ClearForgetsAll ==
  /\ (lastOp.op = "Get" /\ ~hist[lastOp.key].set)
       => (~lastOp.found /\ lastOp.value = ZeroValue)
  /\ lastOp.op = "Clear" => cache = EmptyMap

\* A Get has missed a key that was Set before the last Clear and not since,
\* at a time when no entry can have expired yet (the TTL is MaxTTL and the
\* time is before MaxTTL), while the other key, Set since, has its entry.
C12_Witness ==
  /\ lastOp.op = "Get" /\ ~lastOp.found
  /\ hist[lastOp.key].cleared /\ ~hist[lastOp.key].set
  /\ DefaultExpiry = MaxTTL /\ lastOp.at < MaxTTL
  /\ DOMAIN cache # {}

\* What the whole method of the call with locals f gives when it runs alone
\* on the map f.snap at the time f.at: the map it leaves and what it returns.
Sequential(f) ==
  IF f.fn = "Get" THEN Get(f.snap, f.key, f.at)
  ELSE IF f.fn = "Set"
    THEN [cache |-> Set(f.snap, f.key, f.value, f.at, DefaultExpiry),
          value |-> f.value, found |-> FALSE]
  ELSE [cache |-> Clear(f.snap), value |-> f.value, found |-> FALSE]

\* C13: at most one of the running Get, Set and Clear calls is between its
\* Lock and its Unlock, and it is the holder of the mutex; only the holder
\* changes the map; and as a call unlocks, the map and the call's result are
\* what the whole method gives when run alone on the map the call found when
\* it locked.
C13_Serialized ==
  [][/\ \A p, q \in Procs : (pc'[p] \in Holding /\ pc'[q] \in Holding) => p = q
     /\ \A p \in Procs : pc'[p] \in Holding <=> mu' = p
     /\ (cache' # cache \/ cacheIsNil' # cacheIsNil)
          => \E p \in Procs :
               /\ mu = p /\ mu' = p /\ pc[p] \in Holding
               /\ \A q \in Procs \ {p} : pc'[q] = pc[q]
     /\ \A p \in Procs :
          (pc[p] = "unlock" /\ pc'[p] = "done")
            => /\ cache = Sequential(frame[p]).cache
               /\ frame[p].value = Sequential(frame[p]).value
               /\ frame[p].found = Sequential(frame[p]).found]_vars

\* One goroutine is in the middle of a Set that replaces an entry, between
\* allocating the map and storing, while the other waits in the Lock of a
\* Get for the same key.
C13_Witness ==
  \E p, q \in Procs :
    /\ pc[p] = "store" /\ mu = p
    /\ frame[p].key \in DOMAIN cache
    /\ cache[frame[p].key].value # frame[p].value
    /\ pc[q] = "lock" /\ frame[q].fn = "Get" /\ frame[q].key = frame[p].key

\* C14: a call that is not between its Lock and its Unlock does not hold the
\* mutex (every return path releases it), and under fair scheduling every
\* call waiting in Lock eventually returns.
C14_NoDeadlock ==
  /\ [](\A p \in Procs : pc[p] \notin Holding => mu # p)
  /\ \A p \in Procs : (pc[p] = "lock") ~> (pc[p] = "done")

\* A Get has returned on a hit, and the other goroutine has since taken the
\* mutex for a call on the same key.
C14_Witness ==
  \E p, q \in Procs :
    /\ pc[q] = "done" /\ frame[q].fn = "Get" /\ frame[q].found
    /\ mu = p /\ pc[p] = "locked" /\ frame[p].key = frame[q].key
    /\ frame[q].key \notin DOMAIN frame[p].snap

\* C15: a call in which a Query or a Mutate failed returns an error; and a
\* call that returns no error and the number 0 is a FindPRForBranch whose
\* query found no node or that was answered from the cache.
C15_ErrorsSurface ==
  \A p \in Procs :
    Returned(p) =>
      /\ stats[p].failed => ret[p].err
      /\ (~ret[p].err /\ ret[p].number = 0
            /\ op[p] \in {"FindPRForBranch", "FindPullRequestOid", "CreatePullRequest"})
           => /\ Lookup(p)
              /\ stats[p].queries = 0 \/ nodes[p].len = 0

\* A FindPRForBranch whose query failed has returned an error while the cache
\* holds an entry for the other branch.
C15_Witness ==
  /\ Returned("p1") /\ Lookup("p1")
  /\ stats["p1"].queries = 1 /\ stats["p1"].failed
  /\ ret["p1"] = [number |-> 0, err |-> TRUE]
  /\ cacheKey["p1"] \notin DOMAIN cache /\ DOMAIN cache # {}

\* The token and the PEM key location NewGQLClient works with: the caller's,
\* or the default where the caller gives none.
EffectiveToken ==
  IF cfg = NilConfig \/ cfg.Token = "" THEN DefaultGQLClientConfig.Token ELSE cfg.Token
EffectivePEMKeyLoc ==
  IF cfg = NilConfig \/ cfg.PEMKeyLoc = ""
    THEN DefaultGQLClientConfig.PEMKeyLoc ELSE cfg.PEMKeyLoc

\* C16: NewGQLClient returns no client and the "no token provided" error
\* exactly when the effective token, the effective PEM key location and the
\* gh CLI's token are all empty; otherwise it uses the static token if there
\* is one, else the PEM key if there is one (returning that client or the
\* error of reading the key), else the CLI's token.
C16_CredentialPriority ==
  client # NoClient =>
    /\ (client.err = "no token provided")
         <=> (EffectiveToken = "" /\ EffectivePEMKeyLoc = "" /\ environment.cli = "")
    /\ client.err # "" <=> client.kind = "nil"
    /\ EffectiveToken # ""
         => client = clientFromToken(EffectiveToken)
    /\ (EffectiveToken = "" /\ EffectivePEMKeyLoc # "")
         => /\ client.kind \in {"pem", "nil"}
            /\ client.kind = "pem" => client.key.PEMKeyLoc = EffectivePEMKeyLoc
            /\ client.kind = "nil"
                 => client.err \in {"unable to find key file", "unable to validate token"}
    /\ (EffectiveToken = "" /\ EffectivePEMKeyLoc = "" /\ environment.cli # "")
         => client = clientFromToken(environment.cli)

\* NewGQLClient has returned a client made from the PEM key the environment
\* names, for a caller's cfg that names none, although the gh CLI has a token.
C16_Witness ==
  /\ client.kind = "pem"
  /\ cfg # NilConfig /\ cfg.PEMKeyLoc = "" /\ cfg.AppID # 0
  /\ client.key.PEMKeyLoc = "env.pem" /\ client.key.AppID = cfg.AppID
  /\ environment.cli # ""

\* C17: a caller holds the cache mutex only inside Get, Set or Clear, never
\* at a Query or a Mutate: inside FindPRForBranch's Get its query has not
\* been issued, inside its Set the query has returned, and inside a mutating
\* operation's Clear the remote calls have returned (the Mutate, or the id
\* lookup that failed).
C17_NoLockAcrossRemoteCalls ==
  \A p \in Procs :
    /\ mu = p => pc[p] \in Holding
    /\ pc[p] \in {"idle", "query", "set", "mutate", "clear", "ret"} => mu # p
    /\ (pc[p] \in Holding /\ frame[p].fn = "Get") => stats[p].queries = 0
    /\ (pc[p] \in Holding /\ frame[p].fn = "Set")
         => (stats[p].queries = 1 /\ ~stats[p].failed)
    /\ (pc[p] \in Holding /\ frame[p].fn = "Clear")
         => (stats[p].mutates = 1 \/ (stats[p].queries = 1 /\ ret[p].err))

\* The lookup has missed and is about to issue its live query while the
\* mutating caller, its Mutate done, holds the mutex inside Clear.
C17_Witness ==
  /\ pc["p1"] = "query" /\ Lookup("p1")
  /\ mu = "p2" /\ pc["p2"] = "locked" /\ frame["p2"].fn = "Clear"
  /\ stats["p2"].mutates = 1

\* C18: a FindPRForBranch that misses while another lookup for the same key
\* is between its miss and its Set goes on to a live query of its own; every
\* lookup about to Set has issued exactly one query; and a Set by a lookup
\* replaces whatever entry the key has, so the entry left is the last Set's.
C18_NoDeduplication ==
  [][\A p \in Procs :
       /\ \A k \in Keys :
            (/\ Begin(p, k)
             /\ ~Get(cache, k, now).found
             /\ \E q \in Procs \ {p} :
                  pc[q] \in {"query", "set"} /\ cacheKey[q] = k)
              => (pc'[p] = "query" /\ stats'[p].queries = 0)
       /\ pc'[p] = "set" => stats'[p].queries = 1
       /\ (Decide(p) /\ Outcome(nodes[p]).store)
            => cache'[cacheKey[p]] =
                 [value |-> Outcome(nodes[p]).cached,
                  expireAt |-> now + DefaultExpiry]]_vars

\* Both callers have missed the same key, each has issued its own query, the
\* queries gave different numbers, and both have Set: the entry holds one of
\* the two numbers. No time has passed, so neither miss is an expiry.
C18_Witness ==
  \E p, q \in Procs :
    /\ Returned(p) /\ Lookup(p) /\ stats[p].queries = 1 /\ ~ret[p].err
    /\ Returned(q) /\ Lookup(q) /\ stats[q].queries = 1 /\ ~ret[q].err
    /\ cacheKey[p] = cacheKey[q]
    /\ ret[p].number # ret[q].number
    /\ cacheKey[q] \in DOMAIN cache
    /\ cache[cacheKey[q]].value = ret[q].number
    /\ now = 0

\* C19: a mutating operation leaves the map alone up to and including its
\* remote calls; its Clear runs once, after its Mutate or its failed id
\* lookup has returned; and a lookup that begins while the operation has not
\* yet cleared finds an unexpired entry written before the operation began.
C19_ClearAfterMutation ==
  [][\A p \in Procs :
       /\ (pc[p] \in {"idle", "mutate"} /\ pc'[p] # pc[p] /\ op'[p] \in MutatingOps)
            => cache' = cache
       /\ stats'[p].clears > stats[p].clears
            => /\ pc[p] = "clear"
               /\ stats[p].mutates = 1 \/ (stats[p].queries = 1 /\ ret[p].err)
       /\ \A q \in Procs \ {p}, k \in Keys :
            (/\ op[p] \in MutatingOps /\ pc[p] \in {"mutate", "clear"}
             /\ Begin(q, k)
             /\ k \in DOMAIN cache /\ After(cache[k].expireAt, now)
             /\ p \in origin[k].pre)
              => (pc'[q] = "ret"
                  /\ ret'[q] = [number |-> cache[k].value, err |-> FALSE])]_vars

\* A mutating operation has done its Mutate and not yet cleared; the entry
\* written before it began is still in the map and the other caller's lookup
\* has been answered from it.
C19_Witness ==
  \E p, q \in Procs :
    /\ op[p] \in MutatingOps /\ pc[p] = "clear" /\ stats[p].mutates = 1
    /\ Returned(q) /\ Lookup(q) /\ stats[q].queries = 0
    /\ cacheKey[q] \in DOMAIN cache
    /\ p \in origin[cacheKey[q]].pre
    /\ ret[q].number = cache[cacheKey[q]].value /\ ret[q].number = MaxPR

\* C20: a call issues at most one Query and at most one Mutate, whether or
\* not they fail: FindPRForBranch, FindPullRequestOid, Self and
\* RepositoryInfo issue no Mutate, CreatePullRequest no Query, and
\* AcceptPullRequest and MergePullRequest a Mutate only after their one
\* Query.
C20_NoRetry ==
  \A p \in Procs :
    /\ stats[p].queries <= 1
    /\ stats[p].mutates <= 1
    /\ op[p] \in {"FindPRForBranch", "FindPullRequestOid", "Self", "RepositoryInfo"}
         => stats[p].mutates = 0
    /\ op[p] = "CreatePullRequest" => stats[p].queries = 0
    /\ (op[p] \in {"AcceptPullRequest", "MergePullRequest"} /\ stats[p].mutates = 1)
         => stats[p].queries = 1

\* A MergePullRequest whose Mutate failed has returned the error after one
\* Query and one Mutate.
C20_Witness ==
  /\ Returned("p1") /\ op["p1"] = "MergePullRequest"
  /\ stats["p1"].failed /\ ret["p1"].err
  /\ stats["p1"].queries = 1 /\ stats["p1"].mutates = 1

\* this step is a direct Set(k, _) on the cache
IsSet(k) == lastOp'.op = "Set" /\ lastOp'.key = k /\ now' = now

\* C21: the map holds entries only for keys Set since the last Clear, one
\* for each at most; and a Set(K, V) leaves for K the entry (V, now + TTL)
\* whether or not K had an entry, expired or not, adding an entry only when K
\* had none.
C21_SetReplaces ==
  [][/\ DOMAIN cache' \subseteq {k \in Keys : hist'[k].set}
     /\ Cardinality(DOMAIN cache') <= Cardinality({k \in Keys : hist'[k].set})
     /\ \A k \in Keys :
          IsSet(k) =>
            /\ DOMAIN cache' = DOMAIN cache \cup {k}
            /\ cache'[k] = [value |-> lastOp'.value,
                            expireAt |-> now + DefaultExpiry]
            /\ Cardinality(DOMAIN cache') =
                 Cardinality(DOMAIN cache) + (IF k \in DOMAIN cache THEN 0 ELSE 1)]_vars

\* A Set, some time after the first, has replaced an entry that had not
\* expired (the TTL is MaxTTL and the time is before MaxTTL): the entry has
\* the new value and expires a TTL after this Set.
C21_Witness ==
  /\ lastOp.op = "Set" /\ lastOp.found
  /\ DefaultExpiry = MaxTTL /\ lastOp.at > 0 /\ lastOp.at < MaxTTL
  /\ cache[lastOp.key] = [value |-> MaxPR, expireAt |-> lastOp.at + MaxTTL]
  /\ Cardinality(DOMAIN cache) = 1

\* C22: no call panics; a map that is not allocated has no entries; a Get on
\* it returns (zero value, false) and leaves it unallocated; a Clear leaves
\* an allocated, empty map; and a Set leaves an allocated map with an entry
\* for its key.
C22_NilMapSafe ==
  [][/\ lastOp'.op # "panic"
     /\ cacheIsNil' => cache' = EmptyMap
     /\ \A k \in Keys :
          (IsGet(k) /\ cacheIsNil)
            => /\ ~lastOp'.found /\ lastOp'.value = ZeroValue
               /\ cacheIsNil' /\ cache' = EmptyMap
     /\ (lastOp'.op = "Clear" /\ now' = now)
          => (cache' = EmptyMap /\ ~cacheIsNil')
     /\ \A k \in Keys :
          IsSet(k) => (~cacheIsNil' /\ k \in DOMAIN cache')]_vars

\* The first call on a fresh cache was a Get, some time after construction:
\* it has returned a miss and the map is still not allocated.
C22_Witness ==
  /\ cacheIsNil /\ cache = EmptyMap
  /\ lastOp.op = "Get" /\ ~lastOp.found /\ lastOp.at > 0

\* C23: a Get or a Set of a key leaves the entry of every other key as it
\* was; an entry changes or disappears only in a Get or a Set of its own key
\* or in a Clear; and an expired entry leaves the map only in a Get of its
\* own key or in a Clear (a Set of its key replaces it).
C23_LazyPerKey ==
  [][\A k \in Keys :
       /\ (IsGet(k) \/ IsSet(k))
            => \A j \in Keys \ {k} :
                 /\ j \in DOMAIN cache' <=> j \in DOMAIN cache
                 /\ j \in DOMAIN cache => cache'[j] = cache[j]
       /\ (k \in DOMAIN cache /\ (k \notin DOMAIN cache' \/ cache'[k] # cache[k]))
            => \/ IsGet(k)
               \/ IsSet(k)
               \/ lastOp'.op = "Clear" /\ now' = now
       /\ (k \in DOMAIN cache /\ ~After(cache[k].expireAt, now)
             /\ k \notin DOMAIN cache')
            => \/ IsGet(k)
               \/ lastOp'.op = "Clear" /\ now' = now]_vars

\* An entry that has expired is still in the map after a Get of another key
\* that ran at or after its expiry.
C23_Witness ==
  \E j \in DOMAIN cache :
    /\ lastOp.op = "Get" /\ lastOp.key # j
    /\ ~After(cache[j].expireAt, lastOp.at)
    /\ DefaultExpiry > 0 /\ now = lastOp.at

\* C24: the step in which the live query of a FindPRForBranch fails ends the
\* call with (0, error) and leaves the map as it was; the call is over with
\* no entry for its key; and a lookup of a key that has no entry queries.
C24_FailedQueryNotCached ==
  [][\A p \in Procs :
       /\ (Lookup(p) /\ pc[p] = "query" /\ stats'[p].failed)
            => /\ pc'[p] = "ret" /\ ret'[p] = [number |-> 0, err |-> TRUE]
               /\ cache' = cache /\ cacheIsNil' = cacheIsNil
               /\ hist' = hist
       /\ (Lookup(p)' /\ Returned(p)' /\ stats'[p].failed)
            => cacheKey'[p] \notin DOMAIN cache'
       /\ \A k \in Keys :
            (Begin(p, k) /\ k \notin DOMAIN cache)
              => (pc'[p] = "query" /\ stats'[p].queries = 0)]_vars

\* A lookup has returned the error of its failed query; its key was cached
\* earlier and has no entry now, while another key still has one.
C24_Witness ==
  \E p \in Procs :
    /\ Lookup(p) /\ Returned(p) /\ stats[p].failed /\ ret[p].err
    /\ hist[cacheKey[p]].set
    /\ cacheKey[p] \notin DOMAIN cache
    /\ DOMAIN cache # {}

\* C25: in AcceptPullRequest and MergePullRequest a Mutate is issued only
\* by a call whose one FindPullRequestOid query has returned an id without
\* error; a call whose id lookup fails goes to its return with an error and
\* no Mutate, and it has cleared the cache once when it has returned.
C25_MutateOnlyAfterLookup ==
  [][\A p \in Procs :
       /\ (op'[p] \in {"AcceptPullRequest", "MergePullRequest"}
             /\ stats'[p].mutates > stats[p].mutates)
            => /\ pc[p] = "mutate" /\ op[p] = op'[p]
               /\ stats[p].queries = 1 /\ stats[p].mutates = 0
               /\ ~stats[p].failed /\ ~ret[p].err
       /\ (pc[p] = "idle" /\ op'[p] \in {"AcceptPullRequest", "MergePullRequest"}
             /\ ret'[p].err)
            => /\ pc'[p] = "clear"
               /\ stats'[p].queries = 1 /\ stats'[p].mutates = 0
       /\ (op[p] \in {"AcceptPullRequest", "MergePullRequest"}
             /\ pc[p] = "clear" /\ pc'[p] = "ret" /\ stats[p].mutates = 0)
            => /\ ret'[p].err /\ stats'[p].mutates = 0 /\ stats'[p].clears = 1
               /\ cache' = EmptyMap]_vars

\* An AcceptPullRequest whose id lookup answered with a zero id has returned
\* an error with no Mutate and one Clear, and a MergePullRequest whose id
\* lookup succeeded has returned with its one Mutate done.
C25_Witness ==
  \E p, q \in Procs :
    /\ Returned(p) /\ op[p] = "AcceptPullRequest"
    /\ ret[p].err /\ ~stats[p].failed
    /\ stats[p].queries = 1 /\ stats[p].mutates = 0 /\ stats[p].clears = 1
    /\ Returned(q) /\ op[q] = "MergePullRequest"
    /\ ~ret[q].err /\ stats[q].queries = 1 /\ stats[q].mutates = 1
    /\ stats[q].clears = 1

\* C26: a Get that hits leaves the map as it was, and it happens less than
\* one TTL after the last Set of its key, whose value it returns and whose
\* expiry the entry still carries.
C26_HitReadsOnly ==
  [][\A k \in Keys :
       (IsGet(k) /\ lastOp'.found)
         => /\ cache' = cache /\ cacheIsNil' = cacheIsNil
            /\ hist[k].set /\ lastOp'.value = hist[k].value
            /\ cache[k].expireAt = hist[k].at + DefaultExpiry
            /\ now < hist[k].at + DefaultExpiry]_vars

\* A Get hits one tick before the expiry of an entry written earlier, and the
\* entry still expires one TTL after its Set.
C26_Witness ==
  /\ lastOp.op = "Get" /\ lastOp.found
  /\ lastOp.at > hist[lastOp.key].at
  /\ lastOp.key \in DOMAIN cache
  /\ cache[lastOp.key].expireAt = hist[lastOp.key].at + DefaultExpiry
  /\ lastOp.at + 1 = cache[lastOp.key].expireAt

\* C27: a FindPRForBranch that is answered from the cache returns the value
\* of the last Set under the key made of its own owner, name and branch, and
\* that key has an entry; a lookup whose key has no entry goes to its own
\* live query whatever entries other keys have; and the Set of a lookup
\* writes under its own key and leaves every other key's entry as it was.
C27_KeyIsTriple ==
  [][\A p \in Procs : \A k \in Keys :
       /\ (Begin(p, k) /\ pc'[p] = "ret")
            => /\ k \in DOMAIN cache /\ hist[k].set
               /\ ret'[p] = [number |-> hist[k].value, err |-> FALSE]
               /\ cache[k].value = hist[k].value
       /\ (Begin(p, k) /\ k \notin DOMAIN cache)
            => (pc'[p] = "query" /\ cache' = cache)
       /\ (Lookup(p) /\ cacheKey[p] = k /\ Decide(p))
            => \A j \in Keys \ {k} :
                 /\ j \in DOMAIN cache' <=> j \in DOMAIN cache
                 /\ j \in DOMAIN cache => cache'[j] = cache[j]
                 /\ hist'[j] = hist[j]]_vars

\* A lookup of a key never cached has missed and is about to query, while the
\* three keys that differ from it in exactly one of owner, name and branch
\* all have unexpired entries, not all with the same value.
C27_Witness ==
  LET k == findPrKey("o1", "n1", "b1") IN
    /\ Lookup("p1") /\ pc["p1"] = "query" /\ cacheKey["p1"] = k
    /\ ~hist[k].set /\ ~hist[k].cleared
    /\ DOMAIN cache = Keys \ {k}
    /\ \A j \in DOMAIN cache : After(cache[j].expireAt, now)
    /\ cache[findPrKey("o1", "n1", "b2")].value = MaxPR
    /\ cache[findPrKey("o1", "n2", "b1")].value = ZeroValue
    /\ cache[findPrKey("o2", "n1", "b1")].value = MaxPR

\* C28: a FindPRForBranch is answered from the cache only less than one
\* minute after the last Set of its key; while no Clear has run since that
\* Set, a lookup less than a minute after it is answered with its value, and
\* a lookup at or after one minute goes to the live query, the entry gone.
C28_ServedUnderAMinute ==
  [][\A p \in Procs : \A k \in Keys :
       /\ (Begin(p, k) /\ pc'[p] = "ret")
            => (hist[k].set /\ now < hist[k].at + Minute)
       /\ (Begin(p, k) /\ hist[k].set /\ now < hist[k].at + Minute)
            => /\ pc'[p] = "ret"
               /\ ret'[p] = [number |-> hist[k].value, err |-> FALSE]
       /\ (Begin(p, k) /\ hist[k].set /\ now >= hist[k].at + Minute)
            => /\ pc'[p] = "query" /\ stats'[p].queries = 0
               /\ k \notin DOMAIN cache']_vars

\* Exactly one minute after the sentinel 0 was cached for its key, with no
\* Clear since, a lookup has missed and is about to query; the other key's
\* positive value, cached as long ago, has been evicted by a lookup as well.
C28_Witness ==
  \E p \in Procs : \E j \in Keys :
    /\ Lookup(p) /\ pc[p] = "query" /\ stats[p].queries = 0
    /\ hist[cacheKey[p]].set /\ hist[cacheKey[p]].value = ZeroValue
    /\ now = hist[cacheKey[p]].at + Minute
    /\ cacheKey[p] \notin DOMAIN cache
    /\ j # cacheKey[p] /\ hist[j].set /\ hist[j].value = MaxPR
    /\ now >= hist[j].at + Minute /\ j \notin DOMAIN cache

\* C29: GetAccessToken, FindPullRequestOid, Self and RepositoryInfo leave
\* the map, its allocation and the record of Sets as they were;
\* FindPullRequestOid issues its one query whatever the map holds and
\* GetAccessToken none; and the map changes only in the Get or the Set of a
\* FindPRForBranch or in the Clear of a mutating operation.
C29_OnlyWriters ==
  [][\A p \in Procs :
       /\ (pc[p] = "idle"
             /\ op'[p] \in {"GetAccessToken", "FindPullRequestOid", "Self",
                            "RepositoryInfo"})
            => /\ cache' = cache /\ cacheIsNil' = cacheIsNil /\ hist' = hist
               /\ pc'[p] = "ret"
               /\ stats'[p].queries = (IF op'[p] = "GetAccessToken" THEN 0 ELSE 1)
               /\ stats'[p].mutates = 0 /\ stats'[p].clears = 0
       /\ (cache' # cache \/ cacheIsNil' # cacheIsNil)
            => \E q \in Procs :
                 \/ pc[q] = "idle" /\ op'[q] = "FindPRForBranch"
                 \/ Lookup(q) /\ Decide(q)
                 \/ op[q] \in MutatingOps /\ pc[q] = "clear" /\ pc'[q] = "ret"]_vars

\* A direct FindPullRequestOid has returned after its one query while the
\* map holds an unexpired entry for each branch, a number and the sentinel.
C29_Witness ==
  \E p \in Procs :
    /\ Returned(p) /\ op[p] = "FindPullRequestOid" /\ stats[p].queries = 1
    /\ DOMAIN cache = BranchKeys
    /\ \A k \in DOMAIN cache : After(cache[k].expireAt, now)
    /\ \E k \in DOMAIN cache : cache[k].value = MaxPR
    /\ \E k \in DOMAIN cache : cache[k].value = ZeroValue

====
